---- MODULE Spec2Model ----
(***************************************************************************)
(* Call-graph engine of the documentation writer                           *)
(* (src/src/call_graph_parsing.py): two-phase call resolution              *)
(* (CallResolver), graph assembly (CallGraph.parse_graph), depth           *)
(* computation (CallGraph._calculate_depths), the up/down traversals of    *)
(* CallGraphNode and its docstring methods (add_new_docstring,             *)
(* insert_new_docstring); and the docstring-writing pass over the graph    *)
(* (src/src/docstring_writing.py, DocstringWriter.__call__).               *)
(***************************************************************************)
EXTENDS Integers, Sequences, FiniteSets, TLC

VARIABLES
    program,         \* the file set: function definitions and call expressions
    files_todo,      \* files that resolve_calls has not parsed yet
    reg,             \* keys of CallResolver.node_to_callees, in insertion order
    callees,         \* CallResolver.node_to_callees: definition -> set of definitions
    deferred_calls,  \* CallResolver.deferred_calls not yet reached by the resolving loop
    error,           \* the exception that ended the run, if any
    pc,              \* position of the run
    nodes,           \* keys of CallGraph.nodes, in insertion order
    origin,          \* node name -> the FunctionNode the CallGraphNode was made from
    children,        \* node name -> CallGraphNode.children (a list)
    parents,         \* node name -> CallGraphNode.parents (a list)
    depth,           \* node name -> CallGraphNode.depth
    bi,              \* parse_graph: index in reg of the parent being assembled
    todo,            \* parse_graph: callees of that parent not yet iterated
    entry,           \* _calculate_depths: entrypoints not yet walked
    visited,         \* _calculate_depths: the visited set of the current walk
    stack,           \* call stack of update_depth / _traverse_down / _traverse_up
    t_req,           \* traversal request: start node, direction, max_depth, return_start_node
    t_visited,       \* traverse_*: visited (a set of names)
    t_result,        \* traverse_*: result (a list of <<depth, node>>)
    t_ret,           \* traverse_*: the returned list, once returned
    new_docstring,   \* node name -> CallGraphNode.new_docstring (the staged text)
    summary,         \* node name -> CallGraphNode.summary
    definition,      \* node name -> CallGraphNode.definition (the function's text)
    class_text,      \* <<file, class name>> -> ClassNode.definition (the class's text)
    file_text,       \* file -> FileNode.content (the file's text)
    last_call,       \* the last call made on a node's docstring methods, and its outcome
    calls_made,      \* number of such calls made so far
    levels,          \* DocstringWriter: the depth levels not yet yielded
    level,           \* DocstringWriter: nodes of the current level not yet reached
    cur,             \* DocstringWriter: the node in hand, its prompt and the response
    handled,         \* DocstringWriter: the nodes the loop has been through, in order
    invocation,      \* ToolCallingAssistant.invoke: the call under way and the model's answers
    tree             \* DirectoryTree: the directory, the parse under way, git_in_use; run_app

resVars == <<program, files_todo, reg, callees, deferred_calls>>
resolverVars == <<resVars, error>>
edgeVars == <<nodes, origin, children, parents>>
graphVars == <<edgeVars, depth>>
buildVars == <<bi, todo>>
walkVars == <<entry, visited>>
travVars == <<t_req, t_visited, t_result, t_ret>>
textVars == <<definition, class_text, file_text>>
nodeDocVars == <<new_docstring, summary>>
callVars == <<last_call, calls_made>>
passVars == <<levels, level, cur, handled>>
appVars == <<invocation, tree>>
docVars == <<nodeDocVars, textVars, callVars, passVars, appVars>>
vars == <<resolverVars, pc, graphVars, buildVars, walkVars, stack, travVars, docVars>>

----------------------------------------------------------------------------
(* Bounds of the model *)

\* largest number of function definitions in the file set
MaxDefs == 3
\* largest number of call expressions in the file set
MaxCalls == 3
\* largest max_depth given to a traversal
MaxHops == 2
\* frames the interpreter allows beyond one per function of the file set
StackSlack == 2
\* largest number of functions holding a call whose callee is no name or attribute
MaxOdd == 1

\* Python's None, where a name or a list is expected
None == "None"

\* CallGraphNode.depth = None: no depth
NoDepth == -1

\* max_depth = None: the traversal is not bounded
NoMaxDepth == -1

Names == {"a", "b", "c"}

\* The function definitions a file set is drawn from: FunctionNode identity is
\* (name, file path, line number).  "a" is also defined in a second file and
\* "b" twice in the same file, so names need not be unique.
DefUniverse ==
    { [name |-> "a", file |-> 1, lineno |-> 1],
      [name |-> "b", file |-> 1, lineno |-> 2],
      [name |-> "c", file |-> 2, lineno |-> 1],
      [name |-> "a", file |-> 2, lineno |-> 2],
      [name |-> "b", file |-> 1, lineno |-> 3] }

Range(s) == { s[i] : i \in 1..Len(s) }

Max(S) == CHOOSE x \in S : \A y \in S : y <= x

\* all orderings of a finite set, as sequences without repetition
Perms(S) ==
    { s \in [1..Cardinality(S) -> S] : \A i, j \in 1..Cardinality(S) : s[i] = s[j] => i = j }

\* the elements of a finite set, listed in some order
RECURSIVE SomeOrder(_)
SomeOrder(S) ==
    IF S = {} THEN <<>>
    ELSE LET x == CHOOSE y \in S : TRUE IN <<x>> \o SomeOrder(S \ {x})

\* subsets of S with at most n elements
SubsetsUpTo(S, n) == { T \in SUBSET S : Cardinality(T) <= n }

Count(s, x) == Cardinality({ i \in 1..Len(s) : s[i] = x })

\* the names of a set of function definitions
NamesOf(D) == { d.name : d \in D }

\* interpreter recursion limit, scaled to the model
RecursionLimit == MaxDefs + StackSlack

----------------------------------------------------------------------------
(* The file set *)

Files(p) == { f.file : f \in p.defs }

DefsOf(p, file) == { f \in p.defs : f.file = file }

CallsOf(p, file) == { c \in p.calls : c[1].file = file }

\* a call expression `name(...)` or `obj.name(...)` is <<the function it occurs
\* in, the name it calls>>; odd holds the functions with a call expression of
\* another shape (the callee is a subscript, a call, ...)
Programs ==
    UNION { { [defs |-> D, calls |-> C, odd |-> {}] :
                C \in SubsetsUpTo(D \X Names, MaxCalls) } :
            D \in SubsetsUpTo(DefUniverse, MaxDefs) }

\* the file set p with a call of another shape in at most MaxOdd of its functions
WithOddCalls(p) == { [p EXCEPT !.odd = O] : O \in SubsetsUpTo(p.defs, MaxOdd) }

NoError == [kind |-> "none", callee |-> None, caller |-> None, candidates |-> {}]

----------------------------------------------------------------------------
(* CallResolver *)

\* _add_function_definition, for the function definitions of one visited file
AddFunctionDefinitions(cs, D) ==
    [d \in (DOMAIN cs) \cup D |-> IF d \in D THEN {} ELSE cs[d]]

\* the registered definitions whose name is the called name
MatchingCallees(cs, callee_name) == { d \in DOMAIN cs : d.name = callee_name }

\* mutant of ResolveReady: the deferred calls seen so far are resolved at once
ResolveReady_Early(unparsed) == TRUE

\* the resolving loop starts after the loop over the files
ResolveReady(unparsed) == unparsed = {}

\* mutant of TooMany: several candidates are not noticed
TooMany_Never(matching) == FALSE

\* `len(matching_callees) > 1`
TooMany(matching) == Cardinality(matching) > 1

\* mutant of Unmatched: a call that matches nothing is an error
Unmatched_Raises(cs, call) ==
    [callees |-> cs,
     error |-> [kind |-> "unresolved", callee |-> call[2],
                caller |-> call[1].name, candidates |-> {}]]

\* the `else: pass` branch: a call that matches nothing changes nothing
Unmatched(cs, call) == [callees |-> cs, error |-> NoError]

\* one iteration of the loop of _resolve_deferred_calls
ResolveOne(cs, call) ==
    LET caller == call[1]
        matching == MatchingCallees(cs, call[2])
    IN  IF TooMany(matching)
        THEN [callees |-> cs,
              error |-> [kind |-> "ambiguous", callee |-> call[2],
                         caller |-> caller.name, candidates |-> matching]]
        ELSE IF Cardinality(matching) = 1
        THEN IF caller \in DOMAIN cs
             THEN [callees |-> [cs EXCEPT ![caller] = @ \cup matching],
                   error |-> NoError]
             ELSE [callees |-> cs,
                   error |-> [kind |-> "caller_not_found", callee |-> call[2],
                              caller |-> caller.name, candidates |-> {}]]
        ELSE Unmatched(cs, call)

----------------------------------------------------------------------------
(* CallGraph assembly *)

Graph == [nodes |-> nodes, origin |-> origin, children |-> children,
          parents |-> parents, depth |-> depth]

EmptyGraph == [nodes |-> <<>>, origin |-> <<>>, children |-> <<>>,
               parents |-> <<>>, depth |-> <<>>]

SetGraph(g) ==
    /\ nodes' = g.nodes
    /\ origin' = g.origin
    /\ children' = g.children
    /\ parents' = g.parents
    /\ depth' = g.depth

\* CallGraphNode.from_function_node: a node without edges, depth None
AddNode(g, fn) ==
    IF fn.name \in Range(g.nodes)
    THEN g
    ELSE [nodes |-> Append(g.nodes, fn.name),
          origin |-> g.origin @@ (fn.name :> fn),
          children |-> g.children @@ (fn.name :> <<>>),
          parents |-> g.parents @@ (fn.name :> <<>>),
          depth |-> g.depth @@ (fn.name :> NoDepth)]

\* mutant of AddChild: the parent backlink is forgotten
AddChild_NoBacklink(g, p, c) == [g EXCEPT !.children[p] = Append(@, c)]

\* CallGraphNode.add_child
AddChild(g, p, c) ==
    LET g1 == [g EXCEPT !.children[p] = Append(@, c)]
    IN  [g1 EXCEPT !.parents[c] = Append(@, p)]

\* mutant of AddEdge: parent and child are swapped
AddEdge_Reversed(g, parent_fn, child_fn) ==
    AddChild(AddNode(AddNode(g, parent_fn), child_fn), child_fn.name, parent_fn.name)

\* CallGraph._add_edge
AddEdge(g, parent_fn, child_fn) ==
    AddChild(AddNode(AddNode(g, parent_fn), child_fn), parent_fn.name, child_fn.name)

\* mutant of AddParent: a parent is recorded only through its edges
AddParent_Skipped(g, parent_fn) == g

\* parse_graph records the parent before it iterates the parent's callees
AddParent(g, parent_fn) == AddNode(g, parent_fn)

\* CallGraph.get_entrypoints: the nodes without parents, in the order of the dict
RECURSIVE SelectSeq2(_, _)
SelectSeq2(s, keep) ==
    IF s = <<>> THEN <<>>
    ELSE IF Head(s) \in keep THEN <<Head(s)>> \o SelectSeq2(Tail(s), keep)
    ELSE SelectSeq2(Tail(s), keep)

\* mutant of GetEntrypoints: the filter on the parents is missing
GetEntrypoints_AllNodes(g) == g.nodes

GetEntrypoints(g) ==
    SelectSeq2(g.nodes, { n \in Range(g.nodes) : g.parents[n] = <<>> })

GetEndpoints(g) ==
    SelectSeq2(g.nodes, { n \in Range(g.nodes) : g.children[n] = <<>> })

----------------------------------------------------------------------------
(* State after construction: CallResolver() and CallGraph() are empty *)

NoRequest == [start |-> None, dir |-> None, max_depth |-> NoMaxDepth, return_start |-> TRUE]

TraversalIdle ==
    /\ t_req = NoRequest
    /\ t_visited = {}
    /\ t_result = <<>>
    /\ t_ret = None

NoCall == [op |-> None, node |-> None, width |-> 0, outcome |-> None]

\* no message composed: the texts a message holds
NoMessage == [definition |-> <<>>, proximate |-> {}, class |-> <<>>]

\* no response of the model in hand
NoResponse == [docstring |-> [str |-> FALSE, text |-> <<>>], summary_str |-> FALSE]

NoCur == [node |-> None, step |-> None, message |-> NoMessage, response |-> NoResponse]

\* no directory is given
NoTree == [root |-> {}, sub |-> {}, step |-> None, todo |-> <<>>, git_in_use |-> FALSE,
           children |-> {}, mode |-> None]

\* invoke has not been called
NoInvocation == [retries |-> 0, step |-> None, calls |-> <<>>, messages |-> 0, result |-> 0]

\* no docstring method has been called and no pass is under way; the texts of
\* the functions are not followed
DocsIdle ==
    /\ new_docstring = <<>>
    /\ summary = <<>>
    /\ definition = <<>>
    /\ class_text = <<>>
    /\ file_text = <<>>
    /\ last_call = NoCall
    /\ calls_made = 0
    /\ levels = <<>>
    /\ level = <<>>
    /\ cur = NoCur
    /\ handled = <<>>
    /\ invocation = NoInvocation
    /\ tree = NoTree

Init ==
    /\ program \in Programs
    /\ files_todo = Files(program)
    /\ reg = <<>>
    /\ callees = <<>>
    /\ deferred_calls = <<>>
    /\ error = NoError
    /\ pc = "resolve_calls"
    /\ nodes = <<>>
    /\ origin = <<>>
    /\ children = <<>>
    /\ parents = <<>>
    /\ depth = <<>>
    /\ bi = 0
    /\ todo = {}
    /\ entry = <<>>
    /\ visited = {}
    /\ stack = <<>>
    /\ TraversalIdle
    /\ DocsIdle

----------------------------------------------------------------------------
(* CallResolver.resolve_calls *)

\* `raise RuntimeError("Failed to extract function name from node")`
NameExtractionError ==
    [kind |-> "name_extraction", callee |-> None, caller |-> None, candidates |-> {}]

\* mutant of VisitRaises: a call of another shape is passed over
VisitRaises_Never(D, odd) == FALSE

\* FileVisitor.visit_Call in a file that records the functions D: _get_function_name
\* raises when the callee of a call in a recorded function is no name or attribute
VisitRaises(D, odd) == D \cap odd # {}

\* one iteration of the loop over the files: FileVisitor.parse_visits, then the
\* registration of its function_definitions (a set: any order) and the
\* accumulation of its deferred_calls
\* if the visit meets a call of unsupported shape in a recorded function,
\* _get_function_name raises and nothing of the file is registered
ParseFile(f) ==
    /\ pc = "resolve_calls"
    /\ f \in files_todo
    /\ IF VisitRaises(DefsOf(program, f), program.odd)
       THEN /\ error' = NameExtractionError
            /\ pc' = "failed"
            /\ UNCHANGED <<files_todo, reg, callees, deferred_calls>>
       ELSE /\ \E order \in Perms(DefsOf(program, f)),
                  corder \in Perms(CallsOf(program, f)) :
                  /\ reg' = reg \o order
                  /\ callees' = AddFunctionDefinitions(callees, Range(order))
                  /\ deferred_calls' = deferred_calls \o corder
            /\ files_todo' = files_todo \ {f}
            /\ UNCHANGED <<error, pc>>
    /\ UNCHANGED <<docVars, program, graphVars, buildVars, walkVars, stack, travVars>>

\* one iteration of the loop of _resolve_deferred_calls
ResolveCall ==
    /\ pc = "resolve_calls"
    /\ ResolveReady(files_todo)
    /\ deferred_calls # <<>>
    /\ LET r == ResolveOne(callees, Head(deferred_calls))
       IN  /\ callees' = r.callees
           /\ error' = r.error
           /\ pc' = IF r.error = NoError THEN "resolve_calls" ELSE "failed"
    /\ deferred_calls' = Tail(deferred_calls)
    /\ UNCHANGED <<docVars, program, files_todo, reg, graphVars, buildVars, walkVars, stack,
                   travVars>>

\* resolve_calls returns; parse_graph goes on to its loop over node_to_callees
ResolveDone ==
    /\ pc = "resolve_calls"
    /\ files_todo = {}
    /\ deferred_calls = <<>>
    /\ pc' = "build"
    /\ UNCHANGED <<docVars, resolverVars, graphVars, buildVars, walkVars, stack, travVars>>

----------------------------------------------------------------------------
(* CallGraph.parse_graph: the loop over node_to_callees.items() *)

\* next parent: _add_node(parent_fn_node), then its callees are iterated
BuildAddNode ==
    /\ pc = "build"
    /\ todo = {}
    /\ bi < Len(reg)
    /\ bi' = bi + 1
    /\ todo' = callees[reg[bi + 1]]
    /\ SetGraph(AddParent(Graph, reg[bi + 1]))
    /\ UNCHANGED <<docVars, resolverVars, pc, walkVars, stack, travVars>>

\* next callee of the current parent (a set: any order): _add_edge
BuildAddEdge ==
    /\ pc = "build"
    /\ \E child_fn \in todo :
          /\ SetGraph(AddEdge(Graph, reg[bi], child_fn))
          /\ todo' = todo \ {child_fn}
    /\ UNCHANGED <<docVars, resolverVars, pc, bi, walkVars, stack, travVars>>

----------------------------------------------------------------------------
(* CallGraph._calculate_depths *)

Frame(node, d) == [node |-> node, depth |-> d, idx |-> 1]

RecursionError == [kind |-> "recursion", callee |-> None, caller |-> None, candidates |-> {}]

\* mutant of InVisited: the visited set is not consulted
InVisited_Never(node, vis) == FALSE

\* `if node in visited: return`
InVisited(node, vis) == node \in vis

\* mutant of ShouldUpdate: the depth is overwritten whatever it was
ShouldUpdate_Always(old, d) == TRUE

\* `node.depth is None or node.depth < depth`
ShouldUpdate(old, d) == old = NoDepth \/ old < d

\* the initial loop `node.depth = None`
ResetDepths(g) == [g EXCEPT !.depth = [n \in DOMAIN g.depth |-> NoDepth]]

\* a call update_depth(node, d, vis) made with the frames stk on the stack: the
\* body up to the loop over the children, which the new frame then runs
UpdateDepthEnter(node, d, vis, stk) ==
    IF Len(stk) >= RecursionLimit
    THEN /\ error' = RecursionError
         /\ pc' = "failed"
         /\ stack' = stk
         /\ visited' = vis
         /\ UNCHANGED depth
    ELSE /\ UNCHANGED <<error, pc>>
         /\ IF ~InVisited(node, vis) /\ ShouldUpdate(depth[node], d)
            THEN /\ depth' = [depth EXCEPT ![node] = d]
                 /\ visited' = vis \cup {node}
                 /\ stack' = Append(stk, Frame(node, d))
            ELSE /\ stack' = stk
                 /\ visited' = vis
                 /\ UNCHANGED depth

\* parse_graph calls _calculate_depths: depths reset, entrypoints listed
CalculateDepths ==
    /\ pc = "build"
    /\ todo = {}
    /\ bi = Len(reg)
    /\ SetGraph(ResetDepths(Graph))
    /\ entry' = GetEntrypoints(Graph)
    /\ visited' = {}
    /\ pc' = "walk"
    /\ UNCHANGED <<docVars, resolverVars, buildVars, stack, travVars>>

\* next entrypoint: a new visited set and update_depth(node, 0, visited)
StartWalk ==
    /\ pc = "walk"
    /\ stack = <<>>
    /\ entry # <<>>
    /\ entry' = Tail(entry)
    /\ UpdateDepthEnter(Head(entry), 0, {}, <<>>)
    /\ UNCHANGED <<docVars, resVars, edgeVars, buildVars, travVars>>

\* the loop over node.children in the top frame: the next call update_depth(child, depth + 1, visited)
WalkCall ==
    /\ pc = "walk"
    /\ stack # <<>>
    /\ LET top == stack[Len(stack)]
       IN  /\ top.idx <= Len(children[top.node])
           /\ UpdateDepthEnter(children[top.node][top.idx], top.depth + 1, visited,
                               [stack EXCEPT ![Len(stack)].idx = @ + 1])
    /\ UNCHANGED <<docVars, resVars, edgeVars, buildVars, entry, travVars>>

\* the loop over node.children is exhausted: update_depth returns
WalkReturn ==
    /\ pc = "walk"
    /\ stack # <<>>
    /\ LET top == stack[Len(stack)]
       IN  top.idx > Len(children[top.node])
    /\ stack' = SubSeq(stack, 1, Len(stack) - 1)
    /\ UNCHANGED <<docVars, resolverVars, pc, graphVars, buildVars, walkVars, travVars>>

\* every entrypoint is walked: _calculate_depths and parse_graph return
WalkDone ==
    /\ pc = "walk"
    /\ stack = <<>>
    /\ entry = <<>>
    /\ pc' = "done"
    /\ UNCHANGED <<docVars, resolverVars, graphVars, buildVars, walkVars, stack, travVars>>

ParseGraph ==
    \/ \E f \in Files(program) : ParseFile(f)
    \/ ResolveCall
    \/ ResolveDone
    \/ BuildAddNode
    \/ BuildAddEdge
    \/ CalculateDepths
    \/ StartWalk
    \/ WalkCall
    \/ WalkReturn
    \/ WalkDone

Next == ParseGraph

Spec == Init /\ [][Next]_vars

\* parse_graph on the file sets that may hold calls of unsupported shape
InitShapes ==
    /\ \E p \in Programs : program \in WithOddCalls(p)
    /\ files_todo = Files(program)
    /\ reg = <<>>
    /\ callees = <<>>
    /\ deferred_calls = <<>>
    /\ error = NoError
    /\ pc = "resolve_calls"
    /\ nodes = <<>>
    /\ origin = <<>>
    /\ children = <<>>
    /\ parents = <<>>
    /\ depth = <<>>
    /\ bi = 0
    /\ todo = {}
    /\ entry = <<>>
    /\ visited = {}
    /\ stack = <<>>
    /\ TraversalIdle
    /\ DocsIdle

SpecShapes == InitShapes /\ [][Next]_vars

----------------------------------------------------------------------------
(* The graphs parse_graph builds, as a function of the file set and of the   *)
(* iteration orders the run met (directory listing, set iteration)          *)

\* node_to_callees key orders: the files in any order, the definitions of a
\* file in any order
RECURSIVE RegOrders(_, _)
RegOrders(p, files) ==
    IF files = {} THEN {<<>>}
    ELSE UNION { { o \o rest : o \in Perms(DefsOf(p, f)),
                               rest \in RegOrders(p, files \ {f}) } : f \in files }

\* _resolve_deferred_calls over a whole list
RECURSIVE ResolveAll(_, _)
ResolveAll(cs, calls) ==
    IF calls = <<>> THEN [callees |-> cs, error |-> NoError]
    ELSE LET r == ResolveOne(cs, Head(calls))
         IN  IF r.error # NoError THEN r ELSE ResolveAll(r.callees, Tail(calls))

\* the inner loop of parse_graph over one parent's callees
RECURSIVE AddEdges(_, _, _)
AddEdges(g, parent_fn, kids) ==
    IF kids = <<>> THEN g
    ELSE AddEdges(AddEdge(g, parent_fn, Head(kids)), parent_fn, Tail(kids))

\* the outer loop of parse_graph over the keys regseq of node_to_callees cs:
\* the graphs it can build, one for every order in which the callee sets are
\* iterated
RECURSIVE Assemble(_, _, _)
Assemble(g, regseq, cs) ==
    IF regseq = <<>> THEN {g}
    ELSE UNION { Assemble(AddEdges(AddParent(g, Head(regseq)), Head(regseq), kids),
                          Tail(regseq), cs)
                 : kids \in Perms(cs[Head(regseq)]) }

\* update_depth(node, d, visited) as a function of the state st it starts from
\* (depths, visited set, whether the recursion limit was hit): the state it
\* leaves.  The call is nested d deep.
RECURSIVE UpdateDepth(_, _, _, _)
RECURSIVE UpdateDepthChildren(_, _, _, _)
UpdateDepth(g, st, node, d) ==
    IF d >= RecursionLimit THEN [st EXCEPT !.failed = TRUE]
    ELSE IF ~InVisited(node, st.visited) /\ ShouldUpdate(st.depth[node], d)
    THEN UpdateDepthChildren(g, [st EXCEPT !.depth[node] = d,
                                           !.visited = @ \cup {node}],
                             g.children[node], d + 1)
    ELSE st

UpdateDepthChildren(g, st, kids, d) ==
    IF kids = <<>> \/ st.failed THEN st
    ELSE UpdateDepthChildren(g, UpdateDepth(g, st, Head(kids), d), Tail(kids), d)

\* the loop of _calculate_depths over the entrypoints: a new visited set each
RECURSIVE WalkEntrypoints(_, _, _)
WalkEntrypoints(g, st, entries) ==
    IF entries = <<>> \/ st.failed THEN st
    ELSE WalkEntrypoints(g, UpdateDepth(g, [st EXCEPT !.visited = {}], Head(entries), 0),
                         Tail(entries))

\* _calculate_depths as a function of the graph
CalculateDepthsOf(g) ==
    LET st == WalkEntrypoints(g, [depth |-> ResetDepths(g).depth, visited |-> {},
                                  failed |-> FALSE],
                              GetEntrypoints(g))
    IN  [g EXCEPT !.depth = st.depth]

\* resolve_calls on the file set p: the callee sets, or the error
Resolved(p) == ResolveAll(AddFunctionDefinitions(<<>>, p.defs), SomeOrder(p.calls))

\* the file sets on which resolution succeeds
ResolvablePrograms == { p \in Programs : Resolved(p).error = NoError }

\* the graphs parse_graph assembles for them, before the depths are computed
AssembledGraphs ==
    UNION { UNION { Assemble(EmptyGraph, o, Resolved(p).callees) :
                      o \in RegOrders(p, Files(p)) }
            : p \in ResolvablePrograms }

\* the graphs parse_graph leaves
ParsedGraphs == { CalculateDepthsOf(g) : g \in AssembledGraphs }

\* a traversal reads the children and parents lists only: one graph that
\* parse_graph leaves for each value of these lists
TraversalGraphs ==
    { CalculateDepthsOf(CHOOSE g \in AssembledGraphs : <<g.children, g.parents>> = e) :
        e \in { <<h.children, h.parents>> : h \in AssembledGraphs } }

----------------------------------------------------------------------------
(* CallGraphNode.traverse_down / traverse_up *)

Neighbours(dir, node) == IF dir = "down" THEN children[node] ELSE parents[node]

\* mutant of Seen: the visited set is not consulted
Seen_Never(node_name, vis) == FALSE

\* `if node_name in visited: return`
Seen(node_name, vis) == node_name \in vis

\* `max_depth is not None and current_depth >= max_depth`
AtMaxDepth(max_depth, current_depth) ==
    max_depth # NoMaxDepth /\ current_depth >= max_depth

\* `return result` / `return result[1:]`
Returned(result, return_start_node) ==
    IF return_start_node THEN result ELSE Tail(result)

\* a call _traverse_down / _traverse_up (node, d) made with the frames stk on
\* the stack: the body up to the loop, which the new frame then runs
TraverseEnter(node, d, stk) ==
    IF Len(stk) >= RecursionLimit
    THEN /\ error' = RecursionError
         /\ pc' = "failed"
         /\ stack' = stk
         /\ UNCHANGED <<t_visited, t_result>>
    ELSE /\ UNCHANGED <<error, pc>>
         /\ IF Seen(node, t_visited)
            THEN /\ stack' = stk
                 /\ UNCHANGED <<t_visited, t_result>>
            ELSE /\ t_visited' = t_visited \cup {node}
                 /\ t_result' = Append(t_result, <<d, node>>)
                 /\ stack' = IF AtMaxDepth(t_req.max_depth, d)
                             THEN stk
                             ELSE Append(stk, Frame(node, d))

MaxDepths == {NoMaxDepth} \cup (0..MaxHops)

\* node.traverse_down(max_depth, return_start_node) or traverse_up(...): visited
\* and result start empty, then the first call _traverse(self, 0)
TraverseStart(start, dir, max_depth, return_start_node) ==
    /\ pc = "done"
    /\ t_req = NoRequest
    /\ t_req' = [start |-> start, dir |-> dir, max_depth |-> max_depth,
                 return_start |-> return_start_node]
    /\ pc' = "traverse"
    /\ t_visited' = {start}
    /\ t_result' = <<<<0, start>>>>
    /\ stack' = IF AtMaxDepth(max_depth, 0) THEN <<>> ELSE <<Frame(start, 0)>>
    /\ UNCHANGED <<docVars, resolverVars, graphVars, buildVars, walkVars, t_ret>>

\* the loop over node.children / node.parents in the top frame: the next call
TraverseCall ==
    /\ pc = "traverse"
    /\ stack # <<>>
    /\ LET top == stack[Len(stack)]
           next == Neighbours(t_req.dir, top.node)
       IN  /\ top.idx <= Len(next)
           /\ TraverseEnter(next[top.idx], top.depth + 1,
                            [stack EXCEPT ![Len(stack)].idx = @ + 1])
    /\ UNCHANGED <<docVars, resVars, graphVars, buildVars, walkVars, t_req, t_ret>>

\* the loop is exhausted: _traverse returns
TraverseReturn ==
    /\ pc = "traverse"
    /\ stack # <<>>
    /\ LET top == stack[Len(stack)]
       IN  top.idx > Len(Neighbours(t_req.dir, top.node))
    /\ stack' = SubSeq(stack, 1, Len(stack) - 1)
    /\ UNCHANGED <<docVars, resolverVars, pc, graphVars, buildVars, walkVars, t_req, t_visited,
                   t_result, t_ret>>

\* the first call has returned: traverse_down / traverse_up returns the list
TraverseFinish ==
    /\ pc = "traverse"
    /\ stack = <<>>
    /\ t_ret' = Returned(t_result, t_req.return_start)
    /\ pc' = "returned"
    /\ UNCHANGED <<docVars, resolverVars, graphVars, buildVars, walkVars, stack, t_req, t_visited,
                   t_result>>

NoProgram == [defs |-> {}, calls |-> {}, odd |-> {}]

\* a graph parse_graph has built; the resolver plays no part in a traversal
InitTraverse ==
    /\ \E g \in TraversalGraphs :
          /\ nodes = g.nodes
          /\ origin = g.origin
          /\ children = g.children
          /\ parents = g.parents
          /\ depth = g.depth
    /\ program = NoProgram
    /\ files_todo = {}
    /\ reg = <<>>
    /\ callees = <<>>
    /\ deferred_calls = <<>>
    /\ error = NoError
    /\ pc = "done"
    /\ bi = 0
    /\ todo = {}
    /\ entry = <<>>
    /\ visited = {}
    /\ stack = <<>>
    /\ TraversalIdle
    /\ DocsIdle

NextTraverse ==
    \/ \E start \in Range(nodes), dir \in {"down", "up"}, m \in MaxDepths, r \in BOOLEAN :
          TraverseStart(start, dir, m, r)
    \/ TraverseCall
    \/ TraverseReturn
    \/ TraverseFinish

SpecTraverse == InitTraverse /\ [][NextTraverse]_vars

\* a call that has started runs on: the interpreter takes every step it can
FairSpecTraverse == SpecTraverse /\ WF_vars(NextTraverse)

FairSpec == Spec /\ WF_vars(Next)

----------------------------------------------------------------------------
(* _calculate_depths alone, called on each graph the loops of parse_graph   *)
(* leave (every node and edge added, every depth still None)                *)

InitDepths ==
    /\ \E g \in AssembledGraphs :
          /\ nodes = g.nodes
          /\ origin = g.origin
          /\ children = g.children
          /\ parents = g.parents
          /\ depth = g.depth
    /\ program = NoProgram
    /\ files_todo = {}
    /\ reg = <<>>
    /\ callees = <<>>
    /\ deferred_calls = <<>>
    /\ error = NoError
    /\ pc = "build"
    /\ bi = 0
    /\ todo = {}
    /\ entry = <<>>
    /\ visited = {}
    /\ stack = <<>>
    /\ TraversalIdle
    /\ DocsIdle

NextDepths ==
    \/ CalculateDepths
    \/ StartWalk
    \/ WalkCall
    \/ WalkReturn
    \/ WalkDone

SpecDepths == InitDepths /\ [][NextDepths]_vars

FairSpecDepths == SpecDepths /\ WF_vars(NextDepths)

----------------------------------------------------------------------------
(* The traversals on the graphs of four functions of distinct names, each    *)
(* calling only functions defined further down                               *)

ChainDefs ==
    { [name |-> "a", file |-> 1, lineno |-> 1],
      [name |-> "b", file |-> 1, lineno |-> 2],
      [name |-> "c", file |-> 1, lineno |-> 3],
      [name |-> "d", file |-> 1, lineno |-> 4] }

\* the file sets: any calls from a function to a function defined below it
ChainPrograms ==
    { [defs |-> ChainDefs, calls |-> C, odd |-> {}] :
        C \in SUBSET { <<f, g.name>> : <<f, g>> \in
                         { e \in ChainDefs \X ChainDefs : e[1].lineno < e[2].lineno } } }

\* the graphs parse_graph assembles for them, before the depths are computed
ChainAssembled ==
    UNION { UNION { Assemble(EmptyGraph, o, Resolved(p).callees) :
                      o \in RegOrders(p, Files(p)) }
            : p \in ChainPrograms }

\* the graphs parse_graph builds for them, one for each value of the children
\* and parents lists
ChainGraphs ==
    { CalculateDepthsOf(CHOOSE g \in ChainAssembled : <<g.children, g.parents>> = e) :
        e \in { <<h.children, h.parents>> : h \in ChainAssembled } }

InitChains ==
    /\ \E g \in ChainGraphs :
          /\ nodes = g.nodes
          /\ origin = g.origin
          /\ children = g.children
          /\ parents = g.parents
          /\ depth = g.depth
    /\ program = NoProgram
    /\ files_todo = {}
    /\ reg = <<>>
    /\ callees = <<>>
    /\ deferred_calls = <<>>
    /\ error = NoError
    /\ pc = "done"
    /\ bi = 0
    /\ todo = {}
    /\ entry = <<>>
    /\ visited = {}
    /\ stack = <<>>
    /\ TraversalIdle
    /\ DocsIdle

SpecChains == InitChains /\ [][NextTraverse]_vars

\* _calculate_depths alone on these graphs
InitChainDepths ==
    /\ \E g \in ChainAssembled :
          /\ nodes = g.nodes
          /\ origin = g.origin
          /\ children = g.children
          /\ parents = g.parents
          /\ depth = g.depth
    /\ program = NoProgram
    /\ files_todo = {}
    /\ reg = <<>>
    /\ callees = <<>>
    /\ deferred_calls = <<>>
    /\ error = NoError
    /\ pc = "build"
    /\ bi = 0
    /\ todo = {}
    /\ entry = <<>>
    /\ visited = {}
    /\ stack = <<>>
    /\ TraversalIdle
    /\ DocsIdle

SpecChainDepths == InitChainDepths /\ [][NextDepths]_vars

----------------------------------------------------------------------------
(* Source text.  A text is a list of tokens, the units the docstring        *)
(* pattern of _insert_new_docstring tells apart: a function header the      *)
(* pattern matches ("def"), a header it does not match, e.g. one with a      *)
(* parenthesis in a default value ("xdef"), a class header, a run of        *)
(* whitespace holding a line break with the indentation after it ("nl"), a  *)
(* triple quote ("q"), a word of a docstring ("w") and the code of a body.  *)

Tok(k, n) == [k |-> k, n |-> n]
NL == Tok("nl", "")
Q == Tok("q", "")
W(x) == Tok("w", x)
Def(name) == Tok("def", name)
XDef(name) == Tok("xdef", name)
ClassHeader(name) == Tok("class", name)
Code(name) == Tok("code", name)

\* the function definitions of the texts: besides the identity, the class
\* statement the function is a method of (its name and its line, None for a
\* plain function) and the form of its text:
\*   "block"       def f(...):  with the body on the lines below
\*   "inline"      def f(...): body   on one line
\*   "documented"  a block whose first statement is a docstring
\*   "unmatched"   a block whose header the pattern does not match
Forms == {"block", "inline", "documented", "unmatched"}

Header(d) == IF d.form = "unmatched" THEN XDef(d.name) ELSE Def(d.name)

\* ast.get_source_segment(source, node, padded=True) of a function
FunctionText(d) ==
    <<Header(d)>>
    \o (IF d.form = "documented" THEN <<NL, Q, W("old"), Q>> ELSE <<>>)
    \o (IF d.form = "inline" THEN <<Code(d.name)>> ELSE <<NL, Code(d.name)>>)

\* the definitions of a set, by line
RECURSIVE ByLine(_)
ByLine(D) ==
    IF D = {} THEN <<>>
    ELSE LET d == CHOOSE x \in D : \A y \in D : x.lineno <= y.lineno
         IN  <<d>> \o ByLine(D \ {d})

\* d opens its class statement
FirstOfClass(D, d) ==
    /\ d.cls # None
    /\ \A e \in D : (e.file = d.file /\ e.cls = d.cls /\ e.cline = d.cline)
                        => d.lineno <= e.lineno

\* the text of the statements that hold the definitions ds (listed by line)
RECURSIVE Statements(_, _)
Statements(D, ds) ==
    IF ds = <<>> THEN <<>>
    ELSE (IF FirstOfClass(D, Head(ds)) THEN <<ClassHeader(Head(ds).cls), NL>> ELSE <<>>)
         \o FunctionText(Head(ds))
         \o (IF Tail(ds) = <<>> THEN <<>> ELSE <<NL>>)
         \o Statements(D, Tail(ds))

\* FileNode.content
FileText(D, file) == Statements(D, ByLine({ d \in D : d.file = file })) \o <<NL>>

\* visit_FunctionDef: class_nodes is keyed by the class name, so a method gets
\* the ClassNode made for the first class statement of that name in its file
ClassLine(D, file, cls) ==
    LET lines == { d.cline : d \in { e \in D : e.file = file /\ e.cls = cls } }
    IN  CHOOSE l \in lines : \A m \in lines : l <= m

\* ClassNode.definition: ast.get_source_segment of that class statement
ClassText(D, file, cls) ==
    Statements(D, ByLine({ d \in D : /\ d.file = file
                                     /\ d.cls = cls
                                     /\ d.cline = ClassLine(D, file, cls) }))

ClassKeys(D) == { <<d.file, d.cls>> : d \in { e \in D : e.cls # None } }

----------------------------------------------------------------------------
(* CallGraphNode.add_new_docstring / insert_new_docstring *)

StartsWith(s, t) == s # <<>> /\ Head(s) = t

EndsWith(s, t) == s # <<>> /\ s[Len(s)] = t

\* _ensure_triple_quotes; the text arrives dedented (textwrap.dedent removes
\* indentation only, which the tokens do not hold).  As in the code, a text that
\* is one triple quote both starts and ends with one.
EnsureTripleQuotes(docstring) ==
    LET opened == IF StartsWith(docstring, Q) THEN docstring
                  ELSE <<Q>> \o (IF StartsWith(docstring, NL) THEN <<>> ELSE <<NL>>)
                       \o docstring
    IN  IF EndsWith(opened, Q) THEN opened
        ELSE opened \o (IF EndsWith(opened, NL) THEN <<>> ELSE <<NL>>) \o <<Q>>

\* str.splitlines: the lines of a text, without the line breaks
RECURSIVE SplitLines(_, _)
SplitLines(text, line) ==
    IF text = <<>> THEN (IF line = <<>> THEN <<>> ELSE <<line>>)
    ELSE IF Head(text) = NL THEN <<line>> \o SplitLines(Tail(text), <<>>)
    ELSE SplitLines(Tail(text), Append(line, Head(text)))

\* _wrap (textwrap.fill): a line longer than the width is broken between
\* words; width counts the words that fit on a line after the indentation
RECURSIVE Wrap(_, _)
Wrap(paragraph, width) ==
    IF Len(paragraph) <= width THEN paragraph
    ELSE SubSeq(paragraph, 1, width) \o <<NL>>
         \o Wrap(SubSeq(paragraph, width + 1, Len(paragraph)), width)

\* "\n".join(...)
RECURSIVE JoinLines(_)
JoinLines(ls) ==
    IF ls = <<>> THEN <<>>
    ELSE IF Len(ls) = 1 THEN Head(ls)
    ELSE Head(ls) \o <<NL>> \o JoinLines(Tail(ls))

\* wrapped_docstring: every line of the staged text wrapped on its own
WrappedDocstring(staged, width) ==
    LET ls == SplitLines(staged, <<>>)
    IN  JoinLines([i \in 1..Len(ls) |-> Wrap(ls[i], width)])

\* re.search of the header part of docstring_pattern: the index of the first
\* header of this name the pattern matches, 0 when there is none
FindHeader(code, name) ==
    LET hits == { i \in 1..Len(code) : code[i] = Def(name) }
    IN  IF hits = {} THEN 0 ELSE CHOOSE i \in hits : \A j \in hits : i <= j

\* group 2 of docstring_pattern after a header ending at header_end:
\* whitespace, a triple quote and, lazily, the text up to the next triple
\* quote.  The index where the match ends, 0 when group 2 does not match.
DocstringEnd(code, header_end) ==
    LET rest == { i \in (header_end + 1)..Len(code) : code[i] # NL }
        open == IF rest = {} THEN 0 ELSE CHOOSE i \in rest : \A j \in rest : i <= j
        closes == { i \in (open + 1)..Len(code) : code[i] = Q }
    IN  IF open = 0 \/ code[open] # Q \/ closes = {} THEN 0
        ELSE CHOOSE i \in closes : \A j \in closes : i <= j

\* new_code: the wrapped docstring put in place of the matched one, or right
\* after the header
Splice(code, header_end, wrapped) ==
    LET end == DocstringEnd(code, header_end)
        keep == IF end = 0 THEN header_end ELSE end
    IN  SubSeq(code, 1, header_end) \o <<NL>> \o wrapped
        \o SubSeq(code, keep + 1, Len(code))

\* mutant of Located: a text without the header is taken as it is
Located_Always(header_end) == TRUE

\* `if re_match:`
Located(header_end) == header_end # 0

\* new_docstring = None: nothing is staged (a staged text is never empty)
NoDocstring == <<>>

\* mutant of Unstaged: the staged text is not checked
Unstaged_Never(staged) == FALSE

\* `if self.new_docstring is None:`
Unstaged(staged) == staged = NoDocstring

\* the words of a text, its line breaks left out
Words(text) == SelectSeq(text, LAMBDA t : t # NL)

\* The function text parsed again (ast.parse) and its docstring read as
\* visit_FunctionDef reads it (ast.get_docstring, line breaks replaced by
\* spaces): a docstring is a string that is the first statement of the body;
\* code on the line of its closing quotes is a syntax error.
Reparse(code) ==
    LET rest == { i \in 2..Len(code) : code[i] # NL }
        open == IF rest = {} THEN 0 ELSE CHOOSE i \in rest : \A j \in rest : i <= j
        closes == { i \in (open + 1)..Len(code) : code[i] = Q }
        close == IF closes = {} THEN 0 ELSE CHOOSE i \in closes : \A j \in closes : i <= j
    IN  IF open = 0 \/ code[open] # Q
        THEN [ok |-> open # 0, docstring |-> <<>>]
        ELSE IF close = 0 \/ (close < Len(code) /\ code[close + 1] # NL)
        THEN [ok |-> FALSE, docstring |-> <<>>]
        ELSE [ok |-> TRUE, docstring |-> Words(SubSeq(code, open + 1, close - 1))]

\* the three texts the node's function is written in, as insert_new_docstring
\* leaves them, and the outcome of the call: "ok", or the RuntimeError raised
\* ("usage": nothing staged; "not_found": no header in the text in hand, with
\* the texts handled before it already rewritten)
InsertAll(bufs, name, has_class, staged, width) ==
    LET wrapped == WrappedDocstring(staged, width)
        f_end == FindHeader(bufs.function, name)
        c_end == FindHeader(bufs.class, name)
        m_end == FindHeader(bufs.file, name)
        after_f == [bufs EXCEPT !.function = Splice(bufs.function, f_end, wrapped),
                                !.outcome = "ok"]
        after_c == IF has_class
                   THEN [after_f EXCEPT !.class = Splice(bufs.class, c_end, wrapped)]
                   ELSE after_f
        after_m == [after_c EXCEPT !.file = Splice(bufs.file, m_end, wrapped)]
    IN  IF Unstaged(staged) THEN [bufs EXCEPT !.outcome = "usage"]
        ELSE IF ~Located(f_end) THEN [bufs EXCEPT !.outcome = "not_found"]
        ELSE IF has_class /\ ~Located(c_end) THEN [after_f EXCEPT !.outcome = "not_found"]
        ELSE IF ~Located(m_end) THEN [after_c EXCEPT !.outcome = "not_found"]
        ELSE after_m

\* mutant of Buffers: the class's and the file's text are taken as the visit
\* of the file recorded them
Buffers_AsParsed(node_name) ==
    LET d == origin[node_name]
        D == { origin[m] : m \in Range(nodes) }
    IN  [function |-> definition[node_name],
         class |-> IF d.cls = None THEN <<>> ELSE ClassText(D, d.file, d.cls),
         file |-> FileText(D, d.file),
         outcome |-> None]

\* the texts node_name's function is written in
Buffers(node_name) ==
    LET d == origin[node_name]
    IN  [function |-> definition[node_name],
         class |-> IF d.cls = None THEN <<>> ELSE class_text[<<d.file, d.cls>>],
         file |-> file_text[d.file],
         outcome |-> None]

\* the texts after node.insert_new_docstring left them as in r
SetBuffers(node_name, r) ==
    LET d == origin[node_name]
    IN  /\ definition' = [definition EXCEPT ![node_name] = r.function]
        /\ class_text' = IF d.cls = None THEN class_text
                         ELSE [class_text EXCEPT ![<<d.file, d.cls>>] = r.class]
        /\ file_text' = [file_text EXCEPT ![d.file] = r.file]

\* largest number of calls of the docstring methods in a run
MaxDocCalls == 3

\* words a line of a docstring holds at the widths given as max_width
WrapWidths == {2, 3}

\* texts handed to add_new_docstring: "Hello"; a line longer than the smaller
\* width; a text with a triple quote inside; a text that is one triple quote;
\* a text already in triple quotes
Texts ==
    { <<W("h")>>,
      <<W("h"), W("i"), W("j")>>,
      <<W("h"), Q, W("i")>>,
      <<Q>>,
      <<Q, W("h"), Q>> }

\* arguments of add_new_docstring: a str, or a value of another type
DocArgs == { [str |-> TRUE, text |-> t] : t \in Texts } \cup { [str |-> FALSE, text |-> <<>>] }

\* node.add_new_docstring(arg)
AddNewDocstring(node_name, arg) ==
    /\ pc = "done"
    /\ calls_made < MaxDocCalls
    /\ calls_made' = calls_made + 1
    /\ IF arg.str
       THEN /\ new_docstring' = [new_docstring EXCEPT
                                    ![node_name] = EnsureTripleQuotes(arg.text)]
            /\ last_call' = [op |-> "add", node |-> node_name, width |-> 0, outcome |-> "ok"]
       ELSE /\ UNCHANGED new_docstring
            /\ last_call' = [op |-> "add", node |-> node_name, width |-> 0, outcome |-> "type"]
    /\ UNCHANGED <<resolverVars, pc, graphVars, buildVars, walkVars, stack, travVars, appVars,
                   summary, textVars, passVars>>

\* node.insert_new_docstring(max_width, indent_size): the loop over "function",
\* "class", "file"
InsertNewDocstring(node_name, width) ==
    /\ pc = "done"
    /\ calls_made < MaxDocCalls
    /\ calls_made' = calls_made + 1
    /\ LET r == InsertAll(Buffers(node_name), node_name, origin[node_name].cls # None,
                          new_docstring[node_name], width)
       IN  /\ SetBuffers(node_name, r)
           /\ last_call' = [op |-> "insert", node |-> node_name, width |-> width,
                            outcome |-> r.outcome]
    /\ UNCHANGED <<resolverVars, pc, graphVars, buildVars, walkVars, stack, travVars, appVars,
                   nodeDocVars, passVars>>

\* two functions of one file: both plain, both methods of one class, methods
\* of two class statements of the same name, or a method and a plain function
MutatorDefs ==
    { { [name |-> "a", file |-> 1, lineno |-> 1, cls |-> l[1], cline |-> l[2], form |-> fa],
        [name |-> "b", file |-> 1, lineno |-> 2, cls |-> l[3], cline |-> l[4], form |-> fb] } :
        l \in { <<None, 0, None, 0>>, <<"K", 1, "K", 1>>, <<"K", 1, "K", 2>>,
                <<"K", 1, None, 0>> },
        fa \in Forms, fb \in {"block", "documented"} }

\* the graph parse_graph builds for definitions D without calls among them,
\* registered by line
SolitaryGraph(D) ==
    CalculateDepthsOf(CHOOSE g \in Assemble(EmptyGraph, ByLine(D), [d \in D |-> {}]) : TRUE)

\* the texts as the visit of the files recorded them
InitTexts(D) ==
    /\ definition = [n \in NamesOf(D) |-> FunctionText(CHOOSE d \in D : d.name = n)]
    /\ class_text = [k \in ClassKeys(D) |-> ClassText(D, k[1], k[2])]
    /\ file_text = [f \in { d.file : d \in D } |-> FileText(D, f)]

InitMutator ==
    /\ \E D \in MutatorDefs :
          /\ LET g == SolitaryGraph(D)
             IN  /\ nodes = g.nodes
                 /\ origin = g.origin
                 /\ children = g.children
                 /\ parents = g.parents
                 /\ depth = g.depth
          /\ InitTexts(D)
          /\ new_docstring = [n \in NamesOf(D) |-> NoDocstring]
          /\ summary = [n \in NamesOf(D) |-> None]
    /\ program = NoProgram
    /\ files_todo = {}
    /\ reg = <<>>
    /\ callees = <<>>
    /\ deferred_calls = <<>>
    /\ error = NoError
    /\ pc = "done"
    /\ bi = 0
    /\ todo = {}
    /\ entry = <<>>
    /\ visited = {}
    /\ stack = <<>>
    /\ TraversalIdle
    /\ last_call = NoCall
    /\ calls_made = 0
    /\ levels = <<>>
    /\ level = <<>>
    /\ cur = NoCur
    /\ handled = <<>>
    /\ invocation = NoInvocation
    /\ tree = NoTree

NextMutator ==
    \/ \E n \in Range(nodes), arg \in DocArgs : AddNewDocstring(n, arg)
    \/ \E n \in Range(nodes), width \in WrapWidths : InsertNewDocstring(n, width)

SpecMutator == InitMutator /\ [][NextMutator]_vars

\* two functions of one name in one file: both plain, methods of two classes,
\* methods of two class statements of the same name, both methods of one
\* class statement, or a method and a plain function
SameNameDefs ==
    { { [name |-> "a", file |-> 1, lineno |-> 1, cls |-> l[1], cline |-> l[2], form |-> fa],
        [name |-> "a", file |-> 1, lineno |-> 2, cls |-> l[3], cline |-> l[4], form |-> fb] } :
        l \in { <<None, 0, None, 0>>, <<"K", 1, "L", 2>>, <<"K", 1, "K", 2>>,
                <<"K", 1, "K", 1>>, <<"K", 1, None, 0>>, <<None, 0, "K", 2>> },
        fa \in {"block", "documented"}, fb \in {"block", "documented"} }

\* the graphs parse_graph builds for definitions D without calls among them:
\* function_definitions is a set, so the keys of node_to_callees come in any
\* order and the node of a name is made from whichever function comes first
SolitaryGraphs(D) ==
    UNION { { CalculateDepthsOf(g) : g \in Assemble(EmptyGraph, o, [d \in D |-> {}]) } :
            o \in Perms(D) }

\* the texts as the visit of the files recorded them, a node's text being that
\* of the function the node was made from
InitNodeTexts(D, g) ==
    /\ definition = [n \in NamesOf(D) |-> FunctionText(g.origin[n])]
    /\ class_text = [k \in ClassKeys(D) |-> ClassText(D, k[1], k[2])]
    /\ file_text = [f \in { d.file : d \in D } |-> FileText(D, f)]

InitSameName ==
    /\ \E D \in SameNameDefs : \E g \in SolitaryGraphs(D) :
          /\ nodes = g.nodes
          /\ origin = g.origin
          /\ children = g.children
          /\ parents = g.parents
          /\ depth = g.depth
          /\ InitNodeTexts(D, g)
          /\ new_docstring = [n \in NamesOf(D) |-> NoDocstring]
          /\ summary = [n \in NamesOf(D) |-> None]
          /\ program = [defs |-> D, calls |-> {}, odd |-> {}]
    /\ files_todo = {}
    /\ reg = <<>>
    /\ callees = <<>>
    /\ deferred_calls = <<>>
    /\ error = NoError
    /\ pc = "done"
    /\ bi = 0
    /\ todo = {}
    /\ entry = <<>>
    /\ visited = {}
    /\ stack = <<>>
    /\ TraversalIdle
    /\ last_call = NoCall
    /\ calls_made = 0
    /\ levels = <<>>
    /\ level = <<>>
    /\ cur = NoCur
    /\ handled = <<>>
    /\ invocation = NoInvocation
    /\ tree = NoTree

\* the docstring methods called on the node of two functions of one name
SpecSameName == InitSameName /\ [][NextMutator]_vars

----------------------------------------------------------------------------
(* The docstring-writing pass: DocstringWriter.__call__                      *)
(* (src/src/docstring_writing.py) on the graph parse_graph has built        *)

\* Config.call_chain_context_up / call_chain_context_down
ContextUp == 2
ContextDown == 2

\* words a line of a docstring holds at Config.max_width
PassWidth == 2

\* traverse_down / traverse_up as a function of the lists: the call
\* _traverse(node, d) from the state st (visited, result), and its loop
RECURSIVE TraverseOf(_, _, _, _, _)
RECURSIVE TraverseKids(_, _, _, _, _)
TraverseOf(dir, max_depth, st, node, d) ==
    IF Seen(node, st.visited) THEN st
    ELSE LET here == [visited |-> st.visited \cup {node},
                      result |-> Append(st.result, <<d, node>>)]
         IN  IF AtMaxDepth(max_depth, d) THEN here
             ELSE TraverseKids(dir, max_depth, here, Neighbours(dir, node), d + 1)

TraverseKids(dir, max_depth, st, kids, d) ==
    IF kids = <<>> THEN st
    ELSE TraverseKids(dir, max_depth, TraverseOf(dir, max_depth, st, Head(kids), d),
                      Tail(kids), d)

\* node.traverse_up / traverse_down (max_depth, return_start_node=False)
TraversedFrom(dir, max_depth, node) ==
    Returned(TraverseOf(dir, max_depth, [visited |-> {}, result |-> <<>>], node, 0).result,
             FALSE)

\* _get_proximate_nodes
ProximateNodes(node) ==
    { e[2] : e \in Range(TraversedFrom("up", ContextUp, node)) }
    \cup { e[2] : e \in Range(TraversedFrom("down", ContextDown, node)) }

\* d.splitlines()[0]
FirstLine(text) ==
    LET breaks == { i \in 1..Len(text) : text[i] = NL }
    IN  IF breaks = {} THEN text
        ELSE SubSeq(text, 1, (CHOOSE i \in breaks : \A j \in breaks : i <= j) - 1)

\* `part in text`
Contains(text, part) ==
    \E i \in 0..(Len(text) - Len(part)) : SubSeq(text, i + 1, i + Len(part)) = part

\* _compose_docstring_writer_message_from_node: the texts the message holds
\* (the function's, those of the proximate functions whose first line is not
\* in the class's text, the class's)
Message(node) ==
    LET d == origin[node]
        cls == IF d.cls = None THEN <<>> ELSE class_text[<<d.file, d.cls>>]
        near == { definition[m] : m \in ProximateNodes(node) }
    IN  [definition |-> definition[node],
         proximate |-> IF d.cls = None THEN near
                       ELSE { t \in near : ~Contains(cls, FirstLine(t)) },
         class |-> cls]

\* tool_calls[0]["args"] of a response for node: a docstring of one word, one
\* longer than a line, one with a triple quote inside, one that is no str,
\* and a summary that is no str
Responses(node) ==
    { [docstring |-> [str |-> TRUE, text |-> t], summary_str |-> TRUE] :
        t \in { <<W(node)>>, <<W(node), W("i"), W("j")>>, <<W(node), Q, W("i")>> } }
    \cup { [docstring |-> [str |-> FALSE, text |-> <<>>], summary_str |-> TRUE],
           [docstring |-> [str |-> TRUE, text |-> <<W(node)>>], summary_str |-> FALSE] }

\* the exceptions that leave __call__
DepthMissingError ==
    [kind |-> "depth_missing", callee |-> None, caller |-> None, candidates |-> {}]

EmptyMaxError == [kind |-> "max_of_empty", callee |-> None, caller |-> None, candidates |-> {}]

EmptyLevelError == [kind |-> "key", callee |-> None, caller |-> None, candidates |-> {}]

DocstringError(outcome, node) ==
    [kind |-> outcome, callee |-> node, caller |-> None, candidates |-> {}]

\* the exception leaves __call__
PassRaises(e) ==
    /\ error' = e
    /\ cur' = [cur EXCEPT !.step = "raised"]

\* the loop has been through node
Handled(node, outcome) == handled' = Append(handled, [node |-> node, outcome |-> outcome])

\* mutant of DepthRange: the depths from max_depth down to 1
DepthRange_Positive(max_depth) == [i \in 1..max_depth |-> max_depth + 1 - i]

\* range(max_depth, -1, -1)
DepthRange(max_depth) == [i \in 1..(max_depth + 1) |-> max_depth + 1 - i]

\* mutant of AnyDepthMissing: the depths are not checked
AnyDepthMissing_Never(ns, dep) == FALSE

\* `any(node.depth is None for node in call_graph.nodes.values())`
AnyDepthMissing(ns, dep) == \E n \in Range(ns) : dep[n] = NoDepth

\* __call__ up to the first group: _traverse_by_depth_reversed checks the
\* depths, fills depth_dict and takes max_depth
StartPass ==
    /\ pc = "done"
    /\ cur.step = None
    /\ IF AnyDepthMissing(nodes, depth)
       THEN /\ PassRaises(DepthMissingError)
            /\ UNCHANGED levels
       ELSE IF nodes = <<>>
       THEN /\ PassRaises(EmptyMaxError)
            /\ UNCHANGED levels
       ELSE /\ levels' = DepthRange(Max({ depth[n] : n \in Range(nodes) }))
            /\ cur' = [cur EXCEPT !.step = "loop"]
            /\ UNCHANGED error
    /\ UNCHANGED <<resVars, pc, graphVars, buildVars, walkVars, stack, travVars, appVars,
                   nodeDocVars, textVars, callVars, level, handled>>

\* `yield depth_dict[depth]`: the nodes of the next depth, in the order of
\* call_graph.nodes
NextLevel ==
    /\ cur.step = "loop"
    /\ level = <<>>
    /\ levels # <<>>
    /\ LET group == SelectSeq(nodes, LAMBDA n : depth[n] = Head(levels))
       IN  IF group = <<>>
           THEN /\ PassRaises(EmptyLevelError)
                /\ UNCHANGED <<levels, level>>
           ELSE /\ level' = group
                /\ levels' = Tail(levels)
                /\ UNCHANGED <<error, cur>>
    /\ UNCHANGED <<resVars, pc, graphVars, buildVars, walkVars, stack, travVars, appVars,
                   nodeDocVars, textVars, callVars, handled>>

\* `for node in nodes_at_depth:` and the message composed for the node
ComposeMessage ==
    /\ cur.step = "loop"
    /\ level # <<>>
    /\ cur' = [node |-> Head(level), step |-> "invoke", message |-> Message(Head(level)),
               response |-> NoResponse]
    /\ level' = Tail(level)
    /\ UNCHANGED <<resolverVars, pc, graphVars, buildVars, walkVars, stack, travVars, appVars,
                   nodeDocVars, textVars, callVars, levels, handled>>

\* self.invoke(message) returns a response with one tool call
InvokeReturns(response) ==
    /\ cur.step = "invoke"
    /\ cur' = [cur EXCEPT !.step = "write", !.response = response]
    /\ UNCHANGED <<resolverVars, pc, graphVars, buildVars, walkVars, stack, travVars, appVars,
                   nodeDocVars, textVars, callVars, levels, level, handled>>

\* self.invoke(message) raises ToolCallingException: logged, `continue`
InvokeRaises ==
    /\ cur.step = "invoke"
    /\ Handled(cur.node, "no_response")
    /\ cur' = [NoCur EXCEPT !.step = "loop"]
    /\ UNCHANGED <<resolverVars, pc, graphVars, buildVars, walkVars, stack, travVars, appVars,
                   nodeDocVars, textVars, callVars, levels, level>>

\* add_new_docstring, insert_new_docstring and add_function_summary with the
\* values of the response.  `except ToolCallingException` guards self.invoke
\* only: an exception of one of the three leaves __call__.
WriteDocstring ==
    /\ cur.step = "write"
    /\ LET node == cur.node
           arg == cur.response.docstring
           staged == EnsureTripleQuotes(arg.text)
           r == InsertAll(Buffers(node), node, origin[node].cls # None, staged, PassWidth)
           outcome == IF ~arg.str THEN "type"
                      ELSE IF r.outcome # "ok" THEN r.outcome
                      ELSE IF ~cur.response.summary_str THEN "summary_type"
                      ELSE "applied"
       IN  /\ IF arg.str
              THEN /\ new_docstring' = [new_docstring EXCEPT ![node] = staged]
                   /\ SetBuffers(node, r)
                   /\ last_call' = [op |-> "insert", node |-> node, width |-> PassWidth,
                                    outcome |-> r.outcome]
              ELSE /\ UNCHANGED <<new_docstring, textVars>>
                   /\ last_call' = [op |-> "add", node |-> node, width |-> 0,
                                    outcome |-> "type"]
           /\ summary' = IF outcome = "applied" THEN [summary EXCEPT ![node] = "summary"]
                         ELSE summary
           /\ Handled(node, outcome)
           /\ IF outcome = "applied"
              THEN /\ cur' = [NoCur EXCEPT !.step = "loop"]
                   /\ UNCHANGED error
              ELSE PassRaises(DocstringError(outcome, node))
    /\ UNCHANGED <<resVars, pc, graphVars, buildVars, walkVars, stack, travVars, appVars,
                   calls_made, levels, level>>

\* the groups are exhausted: __call__ returns the repository
FinishPass ==
    /\ cur.step = "loop"
    /\ level = <<>>
    /\ levels = <<>>
    /\ cur' = [cur EXCEPT !.step = "returned"]
    /\ UNCHANGED <<resolverVars, pc, graphVars, buildVars, walkVars, stack, travVars, appVars,
                   nodeDocVars, textVars, callVars, levels, level, handled>>

\* three functions of one file: all plain, all methods of one class, or two
\* methods and a plain function; in the forms of the texts
PassDefs ==
    { { [name |-> "a", file |-> 1, lineno |-> 1, cls |-> l[1], cline |-> l[2], form |-> fa],
        [name |-> "b", file |-> 1, lineno |-> 2, cls |-> l[1], cline |-> l[2], form |-> fb],
        [name |-> "c", file |-> 1, lineno |-> 3, cls |-> l[3], cline |-> l[4], form |-> fc] } :
        l \in { <<None, 0, None, 0>>, <<"K", 1, "K", 1>>, <<"K", 1, None, 0>> },
        fa \in {"block", "documented"}, fb \in {"block", "unmatched"},
        fc \in {"block", "inline"} }

\* the calls among them: c calls a or b, a and b call each other
PassCalls == { <<"c", "a">>, <<"c", "b">>, <<"a", "b">>, <<"b", "a">> }

\* the file sets of the pass: these functions with any of the calls, and the
\* file set that defines no function
PassPrograms ==
    { [defs |-> D,
       calls |-> { <<CHOOSE d \in D : d.name = e[1], e[2]>> : e \in C },
       odd |-> {}] : D \in PassDefs, C \in SUBSET PassCalls }
    \cup {NoProgram}

\* the graphs parse_graph builds for a file set, its functions registered by
\* line
PassGraphs(p) ==
    { CalculateDepthsOf(g) : g \in Assemble(EmptyGraph, ByLine(p.defs), Resolved(p).callees) }

InitPass ==
    /\ \E p \in PassPrograms :
          /\ \E g \in PassGraphs(p) :
                /\ nodes = g.nodes
                /\ origin = g.origin
                /\ children = g.children
                /\ parents = g.parents
                /\ depth = g.depth
          /\ InitTexts(p.defs)
          /\ new_docstring = [n \in NamesOf(p.defs) |-> NoDocstring]
          /\ summary = [n \in NamesOf(p.defs) |-> None]
    /\ program = NoProgram
    /\ files_todo = {}
    /\ reg = <<>>
    /\ callees = <<>>
    /\ deferred_calls = <<>>
    /\ error = NoError
    /\ pc = "done"
    /\ bi = 0
    /\ todo = {}
    /\ entry = <<>>
    /\ visited = {}
    /\ stack = <<>>
    /\ TraversalIdle
    /\ last_call = NoCall
    /\ calls_made = 0
    /\ levels = <<>>
    /\ level = <<>>
    /\ cur = NoCur
    /\ handled = <<>>
    /\ invocation = NoInvocation
    /\ tree = NoTree

NextPass ==
    \/ StartPass
    \/ NextLevel
    \/ ComposeMessage
    \/ \E response \in Responses(cur.node) : InvokeReturns(response)
    \/ InvokeRaises
    \/ WriteDocstring
    \/ FinishPass

SpecPass == InitPass /\ [][NextPass]_vars

----------------------------------------------------------------------------
(* ToolCallingAssistant.invoke (src/src/util.py) *)

\* largest max_tool_call_retries an assistant is made with
MaxRetries == 3

\* largest number of tool calls in a response of the model
MaxToolCalls == 3

\* mutant of ExactlyOne: a response with several tool calls is returned too
ExactlyOne_AtLeast(num_tool_calls) == num_tool_calls >= 1

\* `if num_tool_calls == 1:`
ExactlyOne(num_tool_calls) == num_tool_calls = 1

\* range(self.max_tool_call_retries) is exhausted
Exhausted(inv) == Len(inv.calls) >= inv.retries

\* assistant.invoke(message_content) of an assistant made with
\* max_tool_call_retries: messages holds the message
InvokeStart(max_tool_call_retries) ==
    /\ invocation.step = None
    /\ invocation' = [retries |-> max_tool_call_retries, step |-> "loop", calls |-> <<>>,
                      messages |-> 1, result |-> 0]
    /\ UNCHANGED <<resolverVars, pc, graphVars, buildVars, walkVars, stack, travVars,
                   nodeDocVars, textVars, callVars, passVars, tree>>

\* one turn of the loop: the model answers with num_tool_calls tool calls; one
\* is returned, none adds the reminder to messages, several are only logged
ModelResponds(num_tool_calls) ==
    /\ invocation.step = "loop"
    /\ ~Exhausted(invocation)
    /\ invocation' =
          LET called == [invocation EXCEPT !.calls = Append(@, num_tool_calls)]
          IN  IF ExactlyOne(num_tool_calls)
              THEN [called EXCEPT !.step = "returned", !.result = Len(called.calls)]
              ELSE IF num_tool_calls = 0 THEN [called EXCEPT !.messages = @ + 1]
              ELSE called
    /\ UNCHANGED <<resolverVars, pc, graphVars, buildVars, walkVars, stack, travVars,
                   nodeDocVars, textVars, callVars, passVars, tree>>

\* one turn of the loop: self.runnable.invoke raises (the model cannot be
\* reached); the exception leaves invoke
ModelRaises ==
    /\ invocation.step = "loop"
    /\ ~Exhausted(invocation)
    /\ invocation' = [invocation EXCEPT !.step = "model_error"]
    /\ UNCHANGED <<resolverVars, pc, graphVars, buildVars, walkVars, stack, travVars,
                   nodeDocVars, textVars, callVars, passVars, tree>>

\* after the loop: raise ToolCallingException
InvokeGivesUp ==
    /\ invocation.step = "loop"
    /\ Exhausted(invocation)
    /\ invocation' = [invocation EXCEPT !.step = "raised"]
    /\ UNCHANGED <<resolverVars, pc, graphVars, buildVars, walkVars, stack, travVars,
                   nodeDocVars, textVars, callVars, passVars, tree>>

\* an assistant outside any run of the graph engine
InitInvoke ==
    /\ program = NoProgram
    /\ files_todo = {}
    /\ reg = <<>>
    /\ callees = <<>>
    /\ deferred_calls = <<>>
    /\ error = NoError
    /\ pc = "done"
    /\ nodes = <<>>
    /\ origin = <<>>
    /\ children = <<>>
    /\ parents = <<>>
    /\ depth = <<>>
    /\ bi = 0
    /\ todo = {}
    /\ entry = <<>>
    /\ visited = {}
    /\ stack = <<>>
    /\ TraversalIdle
    /\ DocsIdle

NextInvoke ==
    \/ \E max_tool_call_retries \in 0..MaxRetries : InvokeStart(max_tool_call_retries)
    \/ \E num_tool_calls \in 0..MaxToolCalls : ModelResponds(num_tool_calls)
    \/ ModelRaises
    \/ InvokeGivesUp

SpecInvoke == InitInvoke /\ [][NextInvoke]_vars

----------------------------------------------------------------------------
(* DirectoryTree.parse_tree (src/src/directory_parsing.py) and the question  *)
(* of DocumentationWriter.run_app (src/src/app.py)                          *)

\* SKIP_DIRS, SKIP_FILES and SKIP_EXTENSIONS, as far as the entries go
Skipped(name) == name \in {".git", "__pycache__", "__init__.py", "notes.log"}

\* os.path.isdir of an entry that is not skipped
IsDir(name) == name = "pkg"

\* entries of the root directory, and of its subdirectory pkg
RootEntries == {".git", "__pycache__", "notes.log", "a.py", "pkg"}
SubEntries == {".git", "__init__.py", "b.py"}

\* the directories given to parse_tree
Directories ==
    { [NoTree EXCEPT !.root = R, !.sub = S, !.step = "given"] :
        R \in SUBSET RootEntries, S \in SUBSET SubEntries }

\* `if entry == ".git": self.git_in_use`: the attribute is read, not assigned
GitInUseAfter(git_in_use, name) == git_in_use

\* parse_tree(root_directory): _parse_directory(root_directory) lists the root
ParseTree ==
    /\ tree.step = "given"
    /\ tree' = [tree EXCEPT !.step = "parse",
                            !.todo = <<[path |-> "", left |-> tree.root]>>]
    /\ UNCHANGED <<resolverVars, pc, graphVars, buildVars, walkVars, stack, travVars,
                   nodeDocVars, textVars, callVars, passVars, invocation>>

\* one turn of `for entry in entries:` in the directory being parsed; the
\* entries come in the order of os.listdir
VisitEntry(name) ==
    /\ tree.step = "parse"
    /\ tree.todo # <<>>
    /\ LET top == tree.todo[Len(tree.todo)]
           seen == [tree EXCEPT !.git_in_use = GitInUseAfter(@, name),
                                !.todo[Len(tree.todo)].left = @ \ {name}]
       IN  /\ name \in top.left
           /\ tree' = IF Skipped(name) THEN seen
                      ELSE IF IsDir(name)
                      THEN [seen EXCEPT !.todo = Append(@, [path |-> name, left |-> tree.sub])]
                      ELSE [seen EXCEPT !.children = @ \cup {<<top.path, name>>}]
    /\ UNCHANGED <<resolverVars, pc, graphVars, buildVars, walkVars, stack, travVars,
                   nodeDocVars, textVars, callVars, passVars, invocation>>

\* the entries are exhausted: _parse_directory returns the node; a
\* subdirectory with children becomes a child, and the return of the first
\* call ends parse_tree
LeaveDirectory ==
    /\ tree.step = "parse"
    /\ tree.todo # <<>>
    /\ LET top == tree.todo[Len(tree.todo)]
           rest == SubSeq(tree.todo, 1, Len(tree.todo) - 1)
       IN  /\ top.left = {}
           /\ tree' = IF rest = <<>> THEN [tree EXCEPT !.todo = rest, !.step = "parsed"]
                      ELSE IF \E c \in tree.children : c[1] = top.path
                      THEN [tree EXCEPT !.todo = rest, !.children = @ \cup {<<"", top.path>>}]
                      ELSE [tree EXCEPT !.todo = rest]
    /\ UNCHANGED <<resolverVars, pc, graphVars, buildVars, walkVars, stack, travVars,
                   nodeDocVars, textVars, callVars, passVars, invocation>>

\* run_app(repository, config) with config.return_mode: the user is asked
\* when files are to be modified in place and git_in_use is false
RunApp(return_mode) ==
    /\ tree.step = "parsed"
    /\ tree' = [tree EXCEPT !.mode = return_mode,
                            !.step = IF return_mode = "modify_existing" /\ ~tree.git_in_use
                                     THEN "asked" ELSE "invoked"]
    /\ UNCHANGED <<resolverVars, pc, graphVars, buildVars, walkVars, stack, travVars,
                   nodeDocVars, textVars, callVars, passVars, invocation>>

\* the user's answer to the question
Answer(yes) ==
    /\ tree.step = "asked"
    /\ tree' = [tree EXCEPT !.step = IF yes THEN "invoked" ELSE "canceled"]
    /\ UNCHANGED <<resolverVars, pc, graphVars, buildVars, walkVars, stack, travVars,
                   nodeDocVars, textVars, callVars, passVars, invocation>>

InitTree ==
    /\ program = NoProgram
    /\ files_todo = {}
    /\ reg = <<>>
    /\ callees = <<>>
    /\ deferred_calls = <<>>
    /\ error = NoError
    /\ pc = "done"
    /\ nodes = <<>>
    /\ origin = <<>>
    /\ children = <<>>
    /\ parents = <<>>
    /\ depth = <<>>
    /\ bi = 0
    /\ todo = {}
    /\ entry = <<>>
    /\ visited = {}
    /\ stack = <<>>
    /\ TraversalIdle
    /\ new_docstring = <<>>
    /\ summary = <<>>
    /\ definition = <<>>
    /\ class_text = <<>>
    /\ file_text = <<>>
    /\ last_call = NoCall
    /\ calls_made = 0
    /\ levels = <<>>
    /\ level = <<>>
    /\ cur = NoCur
    /\ handled = <<>>
    /\ invocation = NoInvocation
    /\ tree \in Directories

NextTree ==
    \/ ParseTree
    \/ \E e \in RootEntries \cup SubEntries : VisitEntry(e)
    \/ LeaveDirectory
    \/ \E return_mode \in {"create_new", "modify_existing"} : RunApp(return_mode)
    \/ \E yes \in BOOLEAN : Answer(yes)

SpecTree == InitTree /\ [][NextTree]_vars

----------------------------------------------------------------------------
(* Notions the properties are stated in, defined on the lists of the graph *)

NodeSet == Range(nodes)

\* there is a children edge p -> c
Edge(p, c) == c \in Range(children[p])

EdgeSet == { e \in NodeSet \X NodeSet : Edge(e[1], e[2]) }

\* the nodes no node calls
Roots == { n \in NodeSet : parents[n] = <<>> }

\* the nodes that children edges lead to from the nodes of S
RECURSIVE ReachableFrom(_)
ReachableFrom(S) ==
    LET T == S \cup { c \in NodeSet : \E p \in S : Edge(p, c) }
    IN  IF T = S THEN S ELSE ReachableFrom(T)

\* no node calls itself, directly or through others
Acyclic == \A n \in NodeSet : n \notin ReachableFrom({ c \in NodeSet : Edge(n, c) })

\* edges on the longest path from a root to n, in an acyclic graph
RECURSIVE LongestPath(_)
LongestPath(n) ==
    IF \A p \in NodeSet : ~Edge(p, n) THEN 0
    ELSE 1 + Max({ LongestPath(p) : p \in { q \in NodeSet : Edge(q, n) } })

\* the definitions of the file set that a called name matches
Matches(callee_name) == { d \in program.defs : d.name = callee_name }

\* some call of the file set names a function defined more than once
Ambiguous == \E c \in program.calls : Cardinality(Matches(c[2])) > 1

----------------------------------------------------------------------------
(* C1: after _calculate_depths on an acyclic graph, whatever the orders of
   the children lists and of the entrypoints, every node reachable from an
   entrypoint has a depth equal to the number of edges of the longest path
   from an entrypoint to it. *)
C1_DepthIsLongestPath ==
    (pc = "done" /\ Acyclic) =>
        \A n \in ReachableFrom(Roots) : depth[n] = LongestPath(n)

(* C2: after _calculate_depths a node has a depth if and only if children
   edges lead to it from a node without parents; the nodes of a cycle that
   nothing else calls keep no depth and are no entrypoints. *)
C2_DepthIffReachable ==
    pc = "done" =>
        /\ \A n \in NodeSet : (depth[n] # NoDepth) <=> (n \in ReachableFrom(Roots))
        /\ \A a, b \in NodeSet :
              (parents[a] = <<b>> /\ parents[b] = <<a>>) =>
                  /\ depth[a] = NoDepth
                  /\ depth[b] = NoDepth
                  /\ a \notin Range(GetEntrypoints(Graph))
                  /\ b \notin Range(GetEntrypoints(Graph))

\* the 2-cycle a -> b -> a with no other caller, beside a node that has a depth
C2_Witness ==
    /\ pc = "done"
    /\ \E a, b \in NodeSet :
          /\ a # b
          /\ parents[a] = <<b>>
          /\ parents[b] = <<a>>
          /\ depth[a] = NoDepth
    /\ \E n \in NodeSet : depth[n] = 0

(* C3: _calculate_depths terminates without error on every graph: once the
   walks have started they end, with parse_graph returning normally, also on
   self-calls and on cycles with or without an outside caller. *)
C3_DepthsTerminate == (pc = "walk") ~> (pc = "done")

\* a finished run on a graph with a self-call below an entrypoint and with a
\* cycle that nothing else calls
C3_Witness ==
    /\ pc = "done"
    /\ \E n \in NodeSet : Edge(n, n) /\ depth[n] # NoDepth
    /\ \E n \in NodeSet : depth[n] = NoDepth

(* C4: when the name called by some call matches more than one registered
   definition, resolution fails with an error that names the callee, the
   caller and all candidates, and parse_graph adds no node and no edge. *)
C4_AmbiguityAborts ==
    /\ Ambiguous =>
          /\ pc \in {"resolve_calls", "failed"}
          /\ nodes = <<>>
          /\ DOMAIN children = {}
          /\ DOMAIN parents = {}
          /\ (files_todo = {} /\ deferred_calls = <<>>) => pc = "failed"
    /\ pc = "failed" =>
          /\ error.kind = "ambiguous"
          /\ \E c \in program.calls :
                c[2] = error.callee /\ c[1].name = error.caller
          /\ error.candidates = Matches(error.callee)
          /\ Cardinality(error.candidates) > 1

\* a call to "a", defined in two files, has made resolution fail
C4_Witness ==
    /\ pc = "failed"
    /\ error.callee = "a"
    /\ Cardinality({ d.file : d \in error.candidates }) = 2

\* the calls of the file set whose callee name matches exactly one definition
UniqueCalls == { c \in program.calls : Cardinality(Matches(c[2])) = 1 }

\* the calls of the file set whose callee name matches no definition
UnmatchedCalls == { c \in program.calls : Matches(c[2]) = {} }

\* the edge of call c is in the graph, in both lists
HasEdge(c) ==
    /\ c[1].name \in NodeSet
    /\ c[2] \in NodeSet
    /\ c[2] \in Range(children[c[1].name])
    /\ c[1].name \in Range(parents[c[2]])

\* no deferred call has been resolved yet
NothingResolved ==
    /\ \A d \in DOMAIN callees : callees[d] = {}
    /\ error = NoError
    /\ nodes = <<>>

(* C5 as stated: no deferred call is resolved before every file is parsed
   and every function registered, and so, for every order of the files,
   every call whose callee name matches exactly one definition produces the
   edge caller -> callee, in the caller's children and the callee's parents. *)
C5_UniqueCallsMakeEdges ==
    /\ files_todo # {} => NothingResolved
    /\ pc \in {"done", "failed"} => \A c \in UniqueCalls : HasEdge(c)

(* C5, amended: no deferred call is resolved before every file is parsed and
   every function registered; and when resolution raises no ambiguity error,
   every call whose callee name matches exactly one definition produces the
   edge caller -> callee, in both lists, for every order of the files. *)
C5_UniqueCallsMakeEdgesUnlessAmbiguous ==
    /\ files_todo # {} => NothingResolved
    /\ files_todo # {} =>
          \A c \in program.calls :
              c[1].file \notin files_todo => c \in Range(deferred_calls)
    /\ pc = "done" => \A c \in UniqueCalls : HasEdge(c)

\* the callee is defined in a file that was parsed after the caller's file
C5_Witness ==
    /\ pc = "done"
    /\ \E c \in UniqueCalls :
          /\ HasEdge(c)
          /\ \E i, j \in 1..Len(reg) :
                i < j /\ reg[i] = c[1] /\ reg[j].name = c[2] /\ reg[j].file # c[1].file

(* C6: a deferred call whose callee name matches no registered function is
   dropped silently: no error is raised for it, and it adds no node and no
   edge to the graph. *)
C6_UnmatchedDropped ==
    /\ error # NoError => Matches(error.callee) # {}
    /\ \A c \in UnmatchedCalls :
          /\ c[2] \notin NodeSet
          /\ \A n \in NodeSet : c[2] \notin Range(children[n])
          /\ (pc = "done" /\ c[1].name \in NodeSet) =>
                Range(children[c[1].name])
                    = { k[2] : k \in { u \in UniqueCalls : u[1].name = c[1].name } }

\* a run that ended normally on a file set with an unmatched call
C6_Witness ==
    /\ pc = "done"
    /\ \E c \in UnmatchedCalls : children[c[1].name] = <<>>
    /\ EdgeSet # {}

(* C7: the outcome of parse_graph, an error or the graph's sets of nodes and
   of edges, is a function of the file set alone: the same for every order of
   the files and of the deferred calls, and for every repetition. *)
C7_OutcomeOfFileSet ==
    /\ pc = "failed" => Ambiguous
    /\ pc = "done" =>
          /\ ~Ambiguous
          /\ NodeSet = NamesOf(program.defs)
          /\ EdgeSet = { <<c[1].name, c[2]>> : c \in UniqueCalls }

\* a finished run over two files with calls in both directions between them
C7_Witness ==
    /\ pc = "done"
    /\ \E c, k \in UniqueCalls :
          /\ c[1].file = 1
          /\ k[1].file = 2
          /\ Matches(c[2]) \subseteq DefsOf(program, 2)
          /\ Matches(k[2]) \subseteq DefsOf(program, 1)

(* C8: edges are symmetric after every step of the assembly: for all nodes p
   and c, c occurs in p.children as often as p occurs in c.parents. *)
C8_EdgesSymmetric ==
    /\ DOMAIN children = NodeSet
    /\ DOMAIN parents = NodeSet
    /\ \A p, c \in NodeSet : Count(children[p], c) = Count(parents[c], p)

\* an edge-adding step has just run, and some edge is there twice
C8_Witness ==
    /\ pc = "build"
    /\ \E p, c \in NodeSet : Count(children[p], c) = 2 /\ Count(parents[c], p) = 2

(* C9: after a successful parse_graph the node names are exactly the names of
   the registered functions: a function without callees and callers has a
   node, the functions sharing a name have one node, and no other node exists. *)
C9_NodesAreRegisteredNames ==
    pc = "done" =>
        /\ NodeSet = NamesOf(DOMAIN callees)
        /\ DOMAIN callees = program.defs
        /\ Len(nodes) = Cardinality(NodeSet)
        /\ \A n \in NodeSet : origin[n] \in program.defs /\ origin[n].name = n

\* a solitary function, and two definitions sharing a name, in a finished run
C9_Witness ==
    /\ pc = "done"
    /\ \E n \in NodeSet : children[n] = <<>> /\ parents[n] = <<>>
    /\ Cardinality(program.defs) > Cardinality(NodeSet)

----------------------------------------------------------------------------
NoRepeat(s) == \A i, j \in 1..Len(s) : s[i] = s[j] => i = j

\* the graph has a cycle
Cyclic == \E n \in NodeSet : n \in ReachableFrom({ c \in NodeSet : Edge(n, c) })

(* C10: traverse_up and traverse_down terminate on every graph, cyclic ones
   and max_depth = None included, and the list they return holds each node
   at most once. *)
C10_TraversalTerminates ==
    /\ (pc = "traverse") ~> (pc = "returned")
    /\ [](pc = "returned" => NoRepeat([i \in 1..Len(t_ret) |-> t_ret[i][2]]))

\* an unbounded traversal of a cyclic graph has returned all three nodes
C10_Witness ==
    /\ pc = "returned"
    /\ Cyclic
    /\ t_req.max_depth = NoMaxDepth
    /\ Len(t_ret) = 3
    /\ \E n \in NodeSet : Count(Neighbours(t_req.dir, n), t_req.start) > 0

\* the nodes that at most n edges of the direction dir lead to from the nodes of S
RECURSIVE WithinHops(_, _, _)
WithinHops(dir, S, n) ==
    LET T == S \cup { m \in NodeSet : \E k \in S : m \in Range(Neighbours(dir, k)) }
    IN  IF n = 0 \/ T = S THEN S ELSE WithinHops(dir, T, n - 1)

(* C11: traverse_down (traverse_up) with max_depth = N and return_start_node
   = True returns exactly the nodes that at most N children (parents) edges
   lead to from the start node, whatever the order of the lists. *)
C11_ReturnsNodesWithinHops ==
    (pc = "returned" /\ t_req.return_start /\ t_req.max_depth # NoMaxDepth) =>
        { e[2] : e \in Range(t_ret) } =
            WithinHops(t_req.dir, {t_req.start}, t_req.max_depth)

(* C18: during _calculate_depths, once the depths are reset, every step
   leaves a node's depth as it was, or sets it from None to a value, or
   raises it to a strictly greater value: a depth never decreases and never
   goes back to None, over all the entrypoint walks. *)
C18_DepthOnlyIncreases ==
    [][pc = "walk" =>
          \A n \in NodeSet :
              \/ depth'[n] = depth[n]
              \/ depth[n] = NoDepth /\ depth'[n] # NoDepth
              \/ depth[n] # NoDepth /\ depth'[n] # NoDepth /\ depth'[n] > depth[n]]_vars

\* the walks are over; the entrypoint walked first calls x and nothing else,
\* which gave x the depth 1, and a later walk has raised it to 2
C18_Witness ==
    /\ pc = "done"
    /\ \E x \in NodeSet :
          /\ parents[nodes[1]] = <<>>
          /\ children[nodes[1]] = <<x>>
          /\ depth[x] = 2

\* the files that record a function holding a call of unsupported shape
OddFiles == { d.file : d \in program.odd }

(* C20: a call expression in a recorded function whose callee is neither a
   plain identifier nor an attribute access makes parsing fail and aborts the
   construction of the graph: the run never gets past the file that holds it,
   it ends only by the name-extraction error, and no node is ever added. *)
C20_OddCallAborts ==
    program.odd # {} =>
        /\ pc \in {"resolve_calls", "failed"}
        /\ pc = "resolve_calls" => OddFiles \subseteq files_todo
        /\ pc = "failed" => error = NameExtractionError
        /\ nodes = <<>>

\* the run has failed on the second file it visited, after it had registered
\* the functions and the calls of the first
C20_Witness ==
    /\ pc = "failed"
    /\ error = NameExtractionError
    /\ reg # <<>>
    /\ deferred_calls # <<>>
    /\ nodes = <<>>

\* this step is a call node.insert_new_docstring on the node n
InsertStep(n) ==
    /\ calls_made' = calls_made + 1
    /\ last_call'.op = "insert"
    /\ last_call'.node = n

\* the text holds no header of n that the pattern matches
NoHeader(code, n) == \A i \in 1..Len(code) : code[i] # Def(n)

(* C12: insert_new_docstring on a node on which no docstring is staged fails
   with the usage error and leaves the function's text, the class's text and
   the file's text as they were. *)
C12_InsertBeforeStagingFails ==
    [][\A n \in NodeSet :
          (InsertStep(n) /\ new_docstring[n] = NoDocstring) =>
              /\ last_call'.outcome = "usage"
              /\ UNCHANGED textVars]_vars

\* the call has failed so on a node whose staging was refused (the argument
\* was no str), while a docstring is staged on the other node
C12_Witness ==
    /\ last_call.op = "insert"
    /\ last_call.outcome = "usage"
    /\ calls_made = 3
    /\ \E m \in NodeSet : new_docstring[m] # NoDocstring

(* C13: when the header of the node's function cannot be located in one of
   the texts the insertion goes into (function, class, file), the call fails
   with the error and that text is left as it was: the node is never passed
   over silently. *)
C13_MissingHeaderFails ==
    [][\A n \in NodeSet :
          (InsertStep(n) /\ new_docstring[n] # NoDocstring) =>
              LET d == origin[n]
                  k == <<d.file, d.cls>>
              IN  /\ NoHeader(definition[n], n) =>
                        /\ last_call'.outcome = "not_found"
                        /\ definition'[n] = definition[n]
                  /\ (d.cls # None /\ NoHeader(class_text[k], n)) =>
                        /\ last_call'.outcome = "not_found"
                        /\ class_text'[k] = class_text[k]
                  /\ NoHeader(file_text[d.file], n) =>
                        /\ last_call'.outcome = "not_found"
                        /\ file_text'[d.file] = file_text[d.file]]_vars

\* the call has failed on the class's text, which lacks the header (the
\* method belongs to a second class statement of the same name), after the
\* function's own text was rewritten
C13_Witness ==
    /\ last_call.op = "insert"
    /\ last_call.outcome = "not_found"
    /\ \E n \in NodeSet :
          /\ last_call.node = n
          /\ definition[n] # FunctionText(origin[n])
          /\ origin[n].cls # None
          /\ class_text[<<origin[n].file, origin[n].cls>>]
                = ClassText({ origin[m] : m \in NodeSet }, origin[n].file, origin[n].cls)

(* C14: insertion is idempotent: insert_new_docstring applied a second time
   right after a first application, with the same staged docstring and the
   same max_width, leaves the function's, the class's and the file's text as
   the first application left them. *)
C14_InsertIdempotent ==
    [][\A n \in NodeSet :
          (/\ last_call.op = "insert"
           /\ last_call.node = n
           /\ last_call.outcome = "ok"
           /\ InsertStep(n)
           /\ last_call'.width = last_call.width) => UNCHANGED textVars]_vars

\* the texts add_new_docstring is given that are words only
PlainTexts == { t \in Texts : \A i \in 1..Len(t) : t[i].k = "w" }

(* C15: round trip: for a function whose text has no docstring, after a text
   T of plain words is staged and inserted, the function's text parsed again
   has a docstring equal to T up to line breaks. *)
C15_RoundTrip ==
    [][\A n \in NodeSet : \A t \in PlainTexts :
          (/\ InsertStep(n)
           /\ last_call'.outcome = "ok"
           /\ origin[n].form \in {"block", "inline"}
           /\ definition[n] = FunctionText(origin[n])
           /\ new_docstring[n] = EnsureTripleQuotes(t)) =>
              Reparse(definition'[n]) = [ok |-> TRUE, docstring |-> Words(t)]]_vars

\* the text of the statements that hold the definitions ds, the function own
\* written as text and every other function as the visit of the file read it
RECURSIVE StatementsWith(_, _, _, _)
StatementsWith(D, ds, own, text) ==
    IF ds = <<>> THEN <<>>
    ELSE (IF FirstOfClass(D, Head(ds)) THEN <<ClassHeader(Head(ds).cls), NL>> ELSE <<>>)
         \o (IF Head(ds) = own THEN text ELSE FunctionText(Head(ds)))
         \o (IF Tail(ds) = <<>> THEN <<>> ELSE <<NL>>)
         \o StatementsWith(D, Tail(ds), own, text)

\* no insertion has touched the texts the node n is written in
Untouched(D, n) ==
    LET d == origin[n]
    IN  /\ definition[n] = FunctionText(d)
        /\ file_text[d.file] = FileText(D, d.file)
        /\ d.cls # None => class_text[<<d.file, d.cls>>] = ClassText(D, d.file, d.cls)

(* C27: an insertion on a node changes, in the file's text and in the class's
   text, the function the node was made from (the one at the node's line) and
   no other: every other function of the text, one of the same name included,
   reads as before. *)
C27_InsertIntoOwnFunction ==
    [][\A n \in NodeSet :
          (InsertStep(n) /\ last_call'.outcome = "ok" /\ Untouched(program.defs, n)) =>
              LET D == program.defs
                  d == origin[n]
                  k == <<d.file, d.cls>>
                  in_file == ByLine({ e \in D : e.file = d.file })
                  in_class == ByLine({ e \in D : /\ e.file = d.file
                                                 /\ e.cls = d.cls
                                                 /\ e.cline = ClassLine(D, d.file, d.cls) })
              IN  /\ file_text'[d.file]
                        = StatementsWith(D, in_file, d, definition'[n]) \o <<NL>>
                  /\ d.cls # None =>
                        class_text'[k] = StatementsWith(D, in_class, d, definition'[n])]_vars

(* C28: insert_new_docstring is all or nothing: when the call fails, the
   function's, the class's and the file's text are all as they were before
   the call. *)
C28_InsertAllOrNothing ==
    [][\A n \in NodeSet :
          (InsertStep(n) /\ last_call'.outcome # "ok") => UNCHANGED textVars]_vars

----------------------------------------------------------------------------
(* The docstring-writing pass *)

HandledNodes == { handled[i].node : i \in 1..Len(handled) }

Applied(n) == \E i \in 1..Len(handled) : handled[i] = [node |-> n, outcome |-> "applied"]

\* C16: once the generation or the insertion of a docstring has failed for a
\* node, that node is not applied, the pass does not end in an exception, and
\* when it has returned every node of the graph has been through its loop.
C16_NodeFailureDoesNotAbort ==
    \A i \in 1..Len(handled) :
        handled[i].outcome # "applied" =>
            /\ summary[handled[i].node] = None
            /\ cur.step # "raised"
            /\ cur.step = "returned" => HandledNodes = NodeSet

\* C17: in an acyclic graph every callee is deeper than its caller, and has
\* been through the loop of the pass by the time the message for the caller
\* is composed.
C17_LeavesFirst ==
    Acyclic =>
        \A e \in EdgeSet :
            /\ depth[e[2]] > depth[e[1]]
            /\ cur.node = e[1] => e[2] \in HandledNodes

\* C19: every docstring the pass has applied stands in the file's text, and
\* in the class's text of a method, right after the header of its function:
\* the insertions made after it have not removed it.
C19_NoInsertionLost ==
    \A n \in NodeSet :
        Applied(n) =>
            LET d == origin[n]
                docstring == <<Def(n), NL>> \o WrappedDocstring(new_docstring[n], PassWidth)
            IN  /\ Contains(file_text[d.file], docstring)
                /\ d.cls # None => Contains(class_text[<<d.file, d.cls>>], docstring)

\* two methods of one class have their docstrings applied, one after the other
C19_Witness ==
    \E m, n \in NodeSet :
        /\ m # n
        /\ Applied(m)
        /\ Applied(n)
        /\ origin[m].cls # None
        /\ origin[m].cls = origin[n].cls
        /\ new_docstring[m] # new_docstring[n]

\* C21: on a graph with a node without depth the pass ends in the error of
\* the depth-ordered traversal before any node is yielded: no node goes through
\* the loop, nothing is staged and no text is changed.
C21_MissingDepthStopsPass ==
    (\E n \in NodeSet : depth[n] = NoDepth) =>
        /\ cur.step \in {None, "raised"}
        /\ cur.step = "raised" => error = DepthMissingError
        /\ cur.node = None
        /\ handled = <<>>
        /\ \A n \in NodeSet :
              /\ new_docstring[n] = NoDocstring
              /\ definition[n] = FunctionText(origin[n])
        /\ \A f \in DOMAIN file_text :
              file_text[f] = FileText({ origin[m] : m \in NodeSet }, f)
        /\ \A k \in DOMAIN class_text :
              class_text[k] = ClassText({ origin[m] : m \in NodeSet }, k[1], k[2])

\* the pass was started on a graph with a node without depth and has raised
C21_Witness ==
    /\ (\E n \in NodeSet : depth[n] = NoDepth)
    /\ \E n \in NodeSet : depth[n] # NoDepth
    /\ cur.step = "raised"
    /\ error = DepthMissingError

\* C29: on a graph without nodes the depth-ordered traversal yields no group
\* and the pass does not end in an exception.
C29_EmptyGraphPassCompletes ==
    nodes = <<>> =>
        /\ cur.step # "raised"
        /\ error = NoError
        /\ level = <<>>

\* the depths in use
DepthsInUse == { depth[n] : n \in NodeSet }

\* C24: on a graph with nodes that all have a depth, the depths in use are
\* 0, 1, ..., max without a gap; the pass finds no empty group, takes no node
\* twice and, when it returns, has taken every node.
C24_DepthsWithoutGap ==
    (nodes # <<>> /\ NoDepth \notin DepthsInUse) =>
        /\ DepthsInUse = 0..Max(DepthsInUse)
        /\ error # EmptyLevelError
        /\ \A i, j \in 1..Len(handled) : handled[i].node = handled[j].node => i = j
        /\ \A i \in 1..Len(level) : level[i] \notin HandledNodes \cup {cur.node}
        /\ cur.step = "returned" => HandledNodes = NodeSet

\* the pass has returned from a graph of three levels
C24_Witness ==
    /\ DepthsInUse = 0..2
    /\ cur.step = "returned"
    /\ Len(handled) = 3

----------------------------------------------------------------------------
(* ToolCallingAssistant.invoke *)

\* no answer of the model so far held exactly one tool call
NoneHeldOne == \A i \in 1..Len(invocation.calls) : invocation.calls[i] # 1

\* C22: invoke calls the model at most max_tool_call_retries times; it returns
\* the first answer that holds exactly one tool call, which is the last call
\* it made; and it raises ToolCallingException exactly when it has made
\* max_tool_call_retries calls of which none held exactly one tool call.
C22_InvokeRetries ==
    /\ Len(invocation.calls) <= invocation.retries
    /\ invocation.step = "returned" =>
          /\ invocation.result = Len(invocation.calls)
          /\ invocation.calls[invocation.result] = 1
          /\ \A i \in 1..(invocation.result - 1) : invocation.calls[i] # 1
    /\ invocation.step = "raised" =>
          /\ Len(invocation.calls) = invocation.retries
          /\ NoneHeldOne
    /\ (/\ invocation.step \in {"returned", "raised", "model_error"}
        /\ Len(invocation.calls) = invocation.retries
        /\ NoneHeldOne) => invocation.step = "raised"
    /\ invocation.step = "loop" => NoneHeldOne

\* invoke has returned the answer of its last allowed call, after an answer
\* without a tool call and one with several
C22_Witness ==
    /\ invocation.step = "returned"
    /\ invocation.result = MaxRetries
    /\ \E i, j \in 1..Len(invocation.calls) :
          invocation.calls[i] = 0 /\ invocation.calls[j] > 1

----------------------------------------------------------------------------
(* DirectoryTree.parse_tree *)

\* C23: once parse_tree has returned on a directory that holds an entry .git,
\* git_in_use is true, and run_app in mode modify_existing does not ask.
C23_GitDetected ==
    (".git" \in tree.root /\ tree.step \in {"parsed", "asked", "invoked", "canceled"}) =>
        /\ tree.git_in_use
        /\ tree.step \notin {"asked", "canceled"}

----------------------------------------------------------------------------
(* _calculate_depths and the orders of the lists *)

\* the graphs g and h have the same nodes and the same edges
SameNodesAndEdges(g, h) ==
    /\ Range(g.nodes) = Range(h.nodes)
    /\ \A n \in Range(g.nodes) :
          /\ Range(g.children[n]) = Range(h.children[n])
          /\ Range(g.parents[n]) = Range(h.parents[n])

\* C25: the depths parse_graph leaves are those of every other run that ends
\* with the same nodes and edges, whatever the orders of its lists.
C25_DepthsIgnoreOrders ==
    pc = "done" =>
        \A h \in ParsedGraphs : SameNodesAndEdges(Graph, h) => h.depth = depth

\* C26: when parse_graph has ended without error, no children list and no
\* parents list holds a node twice.
C26_NoEdgeTwice ==
    (pc = "done" /\ error = NoError) =>
        \A n \in NodeSet : NoRepeat(children[n]) /\ NoRepeat(parents[n])

----------------------------------------------------------------------------
\* The run of parse_graph, step by step, ends in one of the graphs that
\* ParsedGraphs computes: the traversals start from the graphs the engine builds.
ParseGraphEndsInParsedGraphs == pc = "done" => Graph \in ParsedGraphs

\* When the loops of parse_graph are through, the graph is one of those that
\* AssembledGraphs computes: _calculate_depths alone starts from the graphs
\* parse_graph calls it on.
BuiltGraphIsAssembled ==
    (pc = "build" /\ bi = Len(reg) /\ todo = {}) => Graph \in AssembledGraphs

====
